---- MODULE Spec2Model ----
(***************************************************************************)
(* Model of "load script/spam_script.py": main() loads the prompts,        *)
(* truncates OUTFILE, starts min(MAX_THREADS, len(prompts)) worker         *)
(* threads, enqueues the prompts and one None per thread on a queue.Queue  *)
(* and joins the queue.  Each worker loops on get(): a None is marked done *)
(* and ends the loop, a prompt is sent (send_prompt), classified, appended *)
(* to OUTFILE under file_lock and then marked done.                        *)
(***************************************************************************)
EXTENDS Integers, Sequences, FiniteSets, TLC

\* ---------------------------------------------------------------- bounds
MaxItems == 3        \* most non-blank lines in the prompt file
MaxThreads == 2      \* largest value of MAX_THREADS that is explored
NumParts == 2        \* pieces in which one serialized line reaches the file
MaxRuns == 2         \* times the script is run on the same files
MaxClassified == 2   \* most prompts in the runs that explore every call outcome

\* ------------------------------------------------------------- constants
BLANK == 0           \* a line that is empty after strip()
None == -1           \* the value main() enqueues to stop a worker

VARIABLES
  inputFile,         \* PROMPT_FILE: [exists, lines]
  MAX_THREADS,       \* the configured pool size
  behaviour,         \* what the endpoint does with each prompt
  prompts,           \* main: the list read from PROMPT_FILE
  mainpc,            \* main: position in main()
  threads,           \* main: number of threads started (len(threads))
  enq,               \* main: prompts put so far (position of the for loop)
  sig,               \* main: None values put so far
  prompt_q,          \* Queue: the entries waiting
  unfinished_tasks,  \* Queue: puts not yet matched by task_done()
  file_lock,         \* 0 when free, else the worker that holds it
  log,               \* OUTFILE: the pieces written, in file order
  truncations,       \* how often OUTFILE was opened with mode "w"
  wpc,               \* worker: position in worker()/send_prompt()
  witem,             \* worker: the value get() returned
  wresult,           \* worker: the result dict built by send_prompt
  wpart              \* worker: next piece of the line to write

vars == <<inputFile, MAX_THREADS, behaviour, prompts, mainpc, threads, enq, sig,
          prompt_q, unfinished_tasks, file_lock, log, truncations,
          wpc, witem, wresult, wpart>>

mainVars == <<prompts, mainpc, threads, enq, sig>>
envVars == <<inputFile, MAX_THREADS, behaviour>>

Workers == 1..MaxThreads
\* a main() that starts MAX_THREADS threads whatever the number of prompts
Min_first(a, b) == a
Min(a, b) == IF a < b THEN a ELSE b

\* ------------------------------------------------------ call outcomes
\* What requests.post(..., timeout=300) can do: raise Timeout, raise another
\* exception, or return a response with a status code and a body.
Timeout == [kind |-> "timeout", status |-> 0, body |-> "none"]
OtherException == [kind |-> "exception", status |-> 0, body |-> "none"]
\* The body is a JSON object with or without "eval_count", JSON that is not
\* an object (data.get raises), or text that resp.json() cannot parse.
Bodies == {"json_with_eval_count", "json_without_eval_count", "json_not_object", "not_json"}
Responses == [kind : {"response"}, status : {200, 500}, body : Bodies]
Outcomes == {Timeout, OtherException} \cup Responses

NoResult == [prompt |-> 0, time_seconds |-> "", output_tokens |-> "", response |-> ""]

\* a send_prompt that parses the body before it looks at the status code
Branch_parse_first(o) ==
  IF o.kind = "response"
  THEN IF o.body \in {"json_with_eval_count", "json_without_eval_count"}
       THEN IF o.status # 200 THEN "non200" ELSE "parsed"
       ELSE "parse_failed"
  ELSE IF o.kind = "timeout" THEN "timeout" ELSE "exception"

\* a send_prompt whose "except Exception" comes before "except Timeout"
Branch_exception_first(o) ==
  IF o.kind = "response"
  THEN IF o.status # 200
       THEN "non200"
       ELSE IF o.body \in {"json_with_eval_count", "json_without_eval_count"}
            THEN "parsed"
            ELSE "parse_failed"
  ELSE "exception"

\* The branch of send_prompt that builds the result dict: the if at line 29,
\* the inner try at 39-49 or its except at 50, the except clauses at 59 and
\* 69.  resp.json() raises on text that is not JSON and data.get raises on
\* JSON that is not an object; both end in the except at line 50.
Branch(o) ==
  IF o.kind = "response"
  THEN IF o.status # 200
       THEN "non200"
       ELSE IF o.body \in {"json_with_eval_count", "json_without_eval_count"}
            THEN "parsed"
            ELSE "parse_failed"
  ELSE IF o.kind = "timeout" THEN "timeout" ELSE "exception"

\* data.get("eval_count", "")
EvalCount(o) == IF o.body = "json_with_eval_count" THEN "eval_count" ELSE ""

\* a send_prompt that records the elapsed time in the error branches too
Result_elapsed(prompt, o) ==
  CASE Branch(o) = "non200" ->
         [prompt |-> prompt, time_seconds |-> "elapsed",
          output_tokens |-> "ERROR", response |-> "resp.text"]
    [] Branch(o) = "parsed" ->
         [prompt |-> prompt, time_seconds |-> "elapsed",
          output_tokens |-> EvalCount(o), response |-> "data"]
    [] Branch(o) = "parse_failed" ->
         [prompt |-> prompt, time_seconds |-> "elapsed",
          output_tokens |-> "ERROR", response |-> "resp.text"]
    [] Branch(o) = "timeout" ->
         [prompt |-> prompt, time_seconds |-> "TIMEOUT",
          output_tokens |-> "TIMEOUT", response |-> "None"]
    [] Branch(o) = "exception" ->
         [prompt |-> prompt, time_seconds |-> "ERROR",
          output_tokens |-> "ERROR", response |-> "str(e)"]

\* a send_prompt that reads data["eval_count"] and reports the round-trip
\* time as a string
Result_tokens(prompt, o) ==
  CASE Branch(o) = "non200" ->
         [prompt |-> prompt, time_seconds |-> "ERROR",
          output_tokens |-> "ERROR", response |-> "resp.text"]
    [] Branch(o) = "parsed" ->
         [prompt |-> prompt, time_seconds |-> "elapsed",
          output_tokens |-> IF o.body = "json_with_eval_count"
                            THEN "eval_count" ELSE "ERROR",
          response |-> "data"]
    [] Branch(o) = "parse_failed" ->
         [prompt |-> prompt, time_seconds |-> "ERROR",
          output_tokens |-> "ERROR", response |-> "resp.text"]
    [] Branch(o) = "timeout" ->
         [prompt |-> prompt, time_seconds |-> "TIMEOUT",
          output_tokens |-> "TIMEOUT", response |-> "None"]
    [] Branch(o) = "exception" ->
         [prompt |-> prompt, time_seconds |-> "ERROR",
          output_tokens |-> "ERROR", response |-> "str(e)"]

\* The result dict of send_prompt for a prompt and the outcome of its call
\* (lines 30-37, 42-49, 51-58, 61-68, 71-78).  round(elapsed, 3) is the
\* token "elapsed", resp.text is "resp.text", the parsed body is "data",
\* str(e) is "str(e)".
Result(prompt, o) ==
  CASE Branch(o) = "non200" ->
         [prompt |-> prompt, time_seconds |-> "ERROR",
          output_tokens |-> "ERROR", response |-> "resp.text"]
    [] Branch(o) = "parsed" ->
         [prompt |-> prompt, time_seconds |-> "elapsed",
          output_tokens |-> EvalCount(o), response |-> "data"]
    [] Branch(o) = "parse_failed" ->
         [prompt |-> prompt, time_seconds |-> "ERROR",
          output_tokens |-> "ERROR", response |-> "resp.text"]
    [] Branch(o) = "timeout" ->
         [prompt |-> prompt, time_seconds |-> "TIMEOUT",
          output_tokens |-> "TIMEOUT", response |-> "None"]
    [] Branch(o) = "exception" ->
         [prompt |-> prompt, time_seconds |-> "ERROR",
          output_tokens |-> "ERROR", response |-> "str(e)"]

\* ------------------------------------------------------------ the files
\* A prompt file with n prompts: a blank line, then the prompts 1..n.
FileOf(n) == [exists |-> TRUE, lines |-> [k \in 1..(n + 1) |-> k - 1]]
EmptyFile == [exists |-> TRUE, lines |-> <<>>]
NoFile == [exists |-> FALSE, lines |-> <<>>]
InputFiles == {NoFile, EmptyFile} \cup {FileOf(n) : n \in 0..MaxItems}

NonBlank(l) == l # BLANK
\* [line.strip() for line in f if line.strip()]
ReadPrompts(f) == SelectSeq(f.lines, NonBlank)

\* json.dumps(result) + "\n" as it reaches the file: NumParts pieces, the
\* last one ending in the newline.
Piece(r, k) == [rec |-> r, part |-> k]
Line(r) == [k \in 1..NumParts |-> Piece(r, k)]
\* what an earlier run left in OUTFILE
OldRecord == Result(0, [kind |-> "response", status |-> 200, body |-> "json_with_eval_count"])
OldLogs == {<<>>, Line(OldRecord)}

\* The behaviours explored by Spec: every prompt is answered or times out.
SomeOutcomes == {Timeout, [kind |-> "response", status |-> 200, body |-> "json_with_eval_count"]}

TypeOK ==
  /\ inputFile \in InputFiles
  /\ MAX_THREADS \in 1..MaxThreads
  /\ mainpc \in {"read", "truncate", "start", "enqueue", "signal", "join", "done", "crashed"}
  /\ threads \in 0..MaxThreads
  /\ file_lock \in {0} \cup Workers
  /\ unfinished_tasks \in 0..(MaxItems + MaxThreads)
  /\ log \in Seq([rec : [prompt : 0..MaxItems, time_seconds : STRING,
                         output_tokens : STRING, response : STRING],
                  part : 1..NumParts])
  /\ wpc \in [Workers -> {"unstarted", "get", "post", "lock", "open", "write",
                          "task_done", "none_done", "exited", "dead"}]

InitWith(outs) ==
  /\ inputFile \in InputFiles
  /\ MAX_THREADS \in 1..MaxThreads
  /\ behaviour \in [1..Len(ReadPrompts(inputFile)) -> outs]
  /\ prompts = <<>>
  /\ mainpc = "read"
  /\ threads = 0
  /\ enq = 0
  /\ sig = 0
  /\ prompt_q = <<>>
  /\ unfinished_tasks = 0
  /\ file_lock = 0
  /\ log \in OldLogs
  /\ truncations = 0
  /\ wpc = [w \in Workers |-> "unstarted"]
  /\ witem = [w \in Workers |-> 0]
  /\ wresult = [w \in Workers |-> NoResult]
  /\ wpart = [w \in Workers |-> 0]

Init == InitWith(SomeOutcomes)

\* Runs of at most MaxClassified prompts in which the endpoint may do
\* anything with each prompt.
ClassifyInit == InitWith(Outcomes) /\ Len(ReadPrompts(inputFile)) <= MaxClassified

\* ----------------------------------------------------------------- main
\* lines 94-95: open(PROMPT_FILE) raises when the file is missing, and the
\* uncaught exception ends the process with a traceback.
Load ==
  /\ mainpc = "read"
  /\ IF inputFile.exists
     THEN /\ prompts' = ReadPrompts(inputFile)
          /\ mainpc' = "truncate"
     ELSE /\ mainpc' = "crashed"
          /\ UNCHANGED prompts
  /\ UNCHANGED <<envVars, threads, enq, sig, prompt_q, unfinished_tasks,
                 file_lock, log, truncations, wpc, witem, wresult, wpart>>

\* a main() that opens OUTFILE for appending at the start of the run
OpenWrite_append(f) == f
\* the file content after open(OUTFILE, "w")
OpenWrite(f) == <<>>

\* line 101: open(OUTFILE, "w").close()
Truncate ==
  /\ mainpc = "truncate"
  /\ log' = OpenWrite(log)
  /\ truncations' = truncations + 1
  /\ mainpc' = "start"
  /\ UNCHANGED <<envVars, prompts, threads, enq, sig, prompt_q, unfinished_tasks,
                 file_lock, wpc, witem, wresult, wpart>>

\* a main() that starts one thread more than min(MAX_THREADS, len(prompts))
StartThread_extra ==
  /\ mainpc = "start"
  /\ IF threads < Min(MAX_THREADS, Len(prompts)) + 1 /\ threads < MaxThreads
     THEN /\ threads' = threads + 1
          /\ wpc' = [wpc EXCEPT ![threads + 1] = "get"]
          /\ UNCHANGED mainpc
     ELSE /\ mainpc' = "enqueue"
          /\ UNCHANGED <<threads, wpc>>
  /\ UNCHANGED <<envVars, prompts, enq, sig, prompt_q, unfinished_tasks,
                 file_lock, log, truncations, witem, wresult, wpart>>

\* lines 104-107: one iteration starts one thread; the loop ends after
\* min(MAX_THREADS, len(prompts)) iterations.
StartThread ==
  /\ mainpc = "start"
  /\ IF threads < Min(MAX_THREADS, Len(prompts))
     THEN /\ threads' = threads + 1
          /\ wpc' = [wpc EXCEPT ![threads + 1] = "get"]
          /\ UNCHANGED mainpc
     ELSE /\ mainpc' = "enqueue"
          /\ UNCHANGED <<threads, wpc>>
  /\ UNCHANGED <<envVars, prompts, enq, sig, prompt_q, unfinished_tasks,
                 file_lock, log, truncations, witem, wresult, wpart>>

\* a queue that puts new entries at the front
Put_front(q, item) == <<item>> \o q
\* Queue.put(item): the entry goes to the back of the queue ...
Put(q, item) == Append(q, item)
\* a queue whose join() counts the prompts only
PutCount_prompts(u, item) == IF item = None THEN u ELSE u + 1
\* ... and unfinished_tasks counts it, whatever the entry is.
PutCount(u, item) == u + 1

\* lines 110-111
PutPrompt ==
  /\ mainpc = "enqueue"
  /\ IF enq < Len(prompts)
     THEN /\ prompt_q' = Put(prompt_q, prompts[enq + 1])
          /\ unfinished_tasks' = PutCount(unfinished_tasks, prompts[enq + 1])
          /\ enq' = enq + 1
          /\ UNCHANGED mainpc
     ELSE /\ mainpc' = "signal"
          /\ UNCHANGED <<prompt_q, unfinished_tasks, enq>>
  /\ UNCHANGED <<envVars, prompts, threads, sig, file_lock, log, truncations,
                 wpc, witem, wresult, wpart>>

\* a main() that enqueues one None fewer than it started threads
PutNone_short ==
  /\ mainpc = "signal"
  /\ IF sig < threads - 1
     THEN /\ prompt_q' = Put(prompt_q, None)
          /\ unfinished_tasks' = PutCount(unfinished_tasks, None)
          /\ sig' = sig + 1
          /\ UNCHANGED mainpc
     ELSE /\ mainpc' = "join"
          /\ UNCHANGED <<prompt_q, unfinished_tasks, sig>>
  /\ UNCHANGED <<envVars, prompts, threads, enq, file_lock, log, truncations,
                 wpc, witem, wresult, wpart>>

\* lines 114-115: one None per started thread
PutNone ==
  /\ mainpc = "signal"
  /\ IF sig < threads
     THEN /\ prompt_q' = Put(prompt_q, None)
          /\ unfinished_tasks' = PutCount(unfinished_tasks, None)
          /\ sig' = sig + 1
          /\ UNCHANGED mainpc
     ELSE /\ mainpc' = "join"
          /\ UNCHANGED <<prompt_q, unfinished_tasks, sig>>
  /\ UNCHANGED <<envVars, prompts, threads, enq, file_lock, log, truncations,
                 wpc, witem, wresult, wpart>>

\* lines 118-120: join() returns once unfinished_tasks is 0; main prints the
\* count and returns.
Join ==
  /\ mainpc = "join"
  /\ unfinished_tasks = 0
  /\ mainpc' = "done"
  /\ UNCHANGED <<envVars, prompts, threads, enq, sig, prompt_q, unfinished_tasks,
                 file_lock, log, truncations, wpc, witem, wresult, wpart>>

\* --------------------------------------------------------------- worker
\* Queue.get(): the entry a blocked get() takes, and what stays behind.
Head_(q) == Head(q)
\* a get() that leaves the entry in the queue
Rest_peek(q) == q
Rest_(q) == Tail(q)

\* a send_prompt that takes file_lock before the call
Get_locked(w) ==
  /\ wpc[w] = "get"
  /\ prompt_q # <<>>
  /\ witem' = [witem EXCEPT ![w] = Head_(prompt_q)]
  /\ prompt_q' = Rest_(prompt_q)
  /\ IF Head_(prompt_q) = None
     THEN /\ wpc' = [wpc EXCEPT ![w] = "none_done"]
          /\ UNCHANGED file_lock
     ELSE /\ file_lock = 0
          /\ file_lock' = w
          /\ wpc' = [wpc EXCEPT ![w] = "post"]
  /\ UNCHANGED <<envVars, mainVars, unfinished_tasks, log, truncations,
                 wresult, wpart>>

\* lines 86-87, and for a prompt the start of send_prompt (line 26)
Get(w) ==
  /\ wpc[w] = "get"
  /\ prompt_q # <<>>
  /\ witem' = [witem EXCEPT ![w] = Head_(prompt_q)]
  /\ prompt_q' = Rest_(prompt_q)
  /\ wpc' = [wpc EXCEPT ![w] = IF Head_(prompt_q) = None THEN "none_done" ELSE "post"]
  /\ UNCHANGED <<envVars, mainVars, unfinished_tasks, file_lock, log, truncations,
                 wresult, wpart>>

\* a worker that breaks on None without task_done()
NoneDone_break(w) ==
  /\ wpc[w] = "none_done"
  /\ wpc' = [wpc EXCEPT ![w] = "exited"]
  /\ UNCHANGED <<envVars, mainVars, prompt_q, unfinished_tasks, file_lock, log,
                 truncations, witem, wresult, wpart>>

\* lines 88-89: task_done() for the None, then break
NoneDone(w) ==
  /\ wpc[w] = "none_done"
  /\ unfinished_tasks' = unfinished_tasks - 1
  /\ wpc' = [wpc EXCEPT ![w] = "exited"]
  /\ UNCHANGED <<envVars, mainVars, prompt_q, file_lock, log, truncations,
                 witem, wresult, wpart>>

\* a send_prompt that returns from the Timeout branch without writing
Respond_drop(w) ==
  /\ wpc[w] = "post"
  /\ wresult' = [wresult EXCEPT ![w] = Result(witem[w], behaviour[witem[w]])]
  /\ wpc' = [wpc EXCEPT ![w] = IF behaviour[witem[w]] = Timeout
                               THEN "task_done" ELSE "lock"]
  /\ UNCHANGED <<envVars, mainVars, prompt_q, unfinished_tasks, file_lock, log,
                 truncations, witem, wpart>>

\* a send_prompt without the "except Exception" clause: the exception
\* leaves send_prompt and worker and ends the thread
Respond_raise(w) ==
  /\ wpc[w] = "post"
  /\ IF behaviour[witem[w]].kind = "exception"
     THEN /\ wpc' = [wpc EXCEPT ![w] = "dead"]
          /\ UNCHANGED wresult
     ELSE /\ wresult' = [wresult EXCEPT ![w] = Result(witem[w], behaviour[witem[w]])]
          /\ wpc' = [wpc EXCEPT ![w] = "lock"]
  /\ UNCHANGED <<envVars, mainVars, prompt_q, unfinished_tasks, file_lock, log,
                 truncations, witem, wpart>>

\* a send_prompt whose result is a module-level variable shared by the
\* threads
Respond_global(w) ==
  /\ wpc[w] = "post"
  /\ wresult' = [v \in Workers |-> Result(witem[w], behaviour[witem[w]])]
  /\ wpc' = [wpc EXCEPT ![w] = "lock"]
  /\ UNCHANGED <<envVars, mainVars, prompt_q, unfinished_tasks, file_lock, log,
                 truncations, witem, wpart>>

\* a send_prompt that puts the prompt back on the queue before it records
\* the outcome
Respond_requeue(w) ==
  /\ wpc[w] = "post"
  /\ wresult' = [wresult EXCEPT ![w] = Result(witem[w], behaviour[witem[w]])]
  /\ wpc' = [wpc EXCEPT ![w] = "lock"]
  /\ prompt_q' = Append(prompt_q, witem[w])
  /\ unfinished_tasks' = unfinished_tasks + 1
  /\ UNCHANGED <<envVars, mainVars, file_lock, log, truncations, witem, wpart>>

\* lines 26-78: the call ends (response, timeout or exception) and the
\* result dict is built; the worker goes on to "with file_lock".
Respond(w) ==
  /\ wpc[w] = "post"
  /\ wresult' = [wresult EXCEPT ![w] = Result(witem[w], behaviour[witem[w]])]
  /\ wpc' = [wpc EXCEPT ![w] = "lock"]
  /\ UNCHANGED <<envVars, mainVars, prompt_q, unfinished_tasks, file_lock, log,
                 truncations, witem, wpart>>

\* a send_prompt that writes without "with file_lock"
Acquire_nolock(w) ==
  /\ wpc[w] = "lock"
  /\ wpc' = [wpc EXCEPT ![w] = "open"]
  /\ UNCHANGED <<envVars, mainVars, prompt_q, unfinished_tasks, file_lock, log,
                 truncations, witem, wresult, wpart>>

\* line 80: file_lock.acquire() blocks while another thread holds the lock
Acquire(w) ==
  /\ wpc[w] = "lock"
  /\ file_lock = 0
  /\ file_lock' = w
  /\ wpc' = [wpc EXCEPT ![w] = "open"]
  /\ UNCHANGED <<envVars, mainVars, prompt_q, unfinished_tasks, log, truncations,
                 witem, wresult, wpart>>

\* a send_prompt that opens OUTFILE with mode "w"
OpenAppend_w(f) == <<>>
\* the file content after open(OUTFILE, "a")
OpenAppend(f) == f

\* an exception that ends the thread without leaving the with-block
Raise_keep_lock(w) ==
  /\ UNCHANGED file_lock
  /\ wpc' = [wpc EXCEPT ![w] = "dead"]

\* An exception inside "with file_lock" releases the lock, leaves
\* send_prompt and worker, and ends the thread (the process lives on).
Raise(w) ==
  /\ file_lock' = 0
  /\ wpc' = [wpc EXCEPT ![w] = "dead"]

\* line 81: open(OUTFILE, "a") succeeds or raises OSError
Open(w) ==
  /\ wpc[w] = "open"
  /\ \/ /\ log' = OpenAppend(log)
        /\ wpc' = [wpc EXCEPT ![w] = "write"]
        /\ wpart' = [wpart EXCEPT ![w] = 1]
        /\ UNCHANGED file_lock
     \/ /\ Raise(w)
        /\ UNCHANGED <<log, wpart>>
  /\ UNCHANGED <<envVars, mainVars, prompt_q, unfinished_tasks, truncations,
                 witem, wresult>>

\* line 82 and the close() that ends the inner with-block: the buffered
\* line is flushed to the file in one or more write calls (a line longer
\* than the buffer takes several), and any of them can raise OSError, after
\* the earlier pieces have reached the file.  After the last piece both
\* with-blocks are left.
Write(w) ==
  /\ wpc[w] = "write"
  /\ \/ /\ log' = Append(log, Piece(wresult[w], wpart[w]))
        /\ IF wpart[w] = NumParts
           THEN /\ file_lock' = 0
                /\ wpc' = [wpc EXCEPT ![w] = "task_done"]
                /\ wpart' = [wpart EXCEPT ![w] = 0]
           ELSE /\ wpart' = [wpart EXCEPT ![w] = wpart[w] + 1]
                /\ UNCHANGED <<file_lock, wpc>>
     \/ /\ Raise(w)
        /\ UNCHANGED <<log, wpart>>
  /\ UNCHANGED <<envVars, mainVars, prompt_q, unfinished_tasks, truncations,
                 witem, wresult>>

\* line 91: task_done() for the prompt, back to get()
TaskDone(w) ==
  /\ wpc[w] = "task_done"
  /\ unfinished_tasks' = unfinished_tasks - 1
  /\ wpc' = [wpc EXCEPT ![w] = "get"]
  /\ witem' = [witem EXCEPT ![w] = 0]
  /\ wresult' = [wresult EXCEPT ![w] = NoResult]
  /\ UNCHANGED <<envVars, mainVars, prompt_q, file_lock, log, truncations, wpart>>

WorkerStep(w) ==
  \/ Get(w)
  \/ NoneDone(w)
  \/ Respond(w)
  \/ Acquire(w)
  \/ Open(w)
  \/ Write(w)
  \/ TaskDone(w)

MainStep ==
  \/ Load
  \/ Truncate
  \/ StartThread
  \/ PutPrompt
  \/ PutNone
  \/ Join

Next ==
  \/ MainStep
  \/ \E w \in Workers : WorkerStep(w)

Spec == Init /\ [][Next]_vars

\* Every thread that can take a step eventually takes one.
Fairness ==
  /\ WF_vars(MainStep)
  /\ \A w \in Workers : WF_vars(WorkerStep(w))

FairSpec == Spec /\ Fairness

ClassifySpec == ClassifyInit /\ [][Next]_vars

\* lines 122-123: the script is started again after the previous run has
\* ended normally: a new process with a new queue, lock and threads; the
\* prompt file, the endpoint and OUTFILE are as the previous run left them.
\* truncations is not a variable of the process: it counts the open(OUTFILE,
\* "w") calls made on the file, and so the runs.
Rerun ==
  /\ mainpc = "done"
  /\ truncations < MaxRuns
  /\ prompts' = <<>>
  /\ mainpc' = "read"
  /\ threads' = 0
  /\ enq' = 0
  /\ sig' = 0
  /\ prompt_q' = <<>>
  /\ unfinished_tasks' = 0
  /\ file_lock' = 0
  /\ wpc' = [w \in Workers |-> "unstarted"]
  /\ witem' = [w \in Workers |-> 0]
  /\ wresult' = [w \in Workers |-> NoResult]
  /\ wpart' = [w \in Workers |-> 0]
  /\ UNCHANGED <<envVars, log, truncations>>

NextRerun ==
  \/ Next
  \/ Rerun

RerunSpec == Init /\ [][NextRerun]_vars

\* ------------------------------------------------- reading the log back
NumPrompts == Len(ReadPrompts(inputFile))
Max(S) == CHOOSE m \in S : \A n \in S : n <= m
\* positions of the pieces that end in a newline
Newlines(f) == {j \in 1..Len(f) : f[j].part = NumParts}
\* the line that ends at position j: everything after the newline before it
LineStart(f, j) == 1 + Max({0} \cup {i \in Newlines(f) : i < j})
LineAt(f, j) == SubSeq(f, LineStart(f, j), j)
\* the line is the complete serialization of one record
WholeLine(f, j) == LineAt(f, j) = Line(f[j].rec)
\* what follows the last newline
Fragment(f) == SubSeq(f, LineStart(f, Len(f) + 1), Len(f))
\* complete records of prompt i in the log
RecordsOf(i) == Cardinality({j \in Newlines(log) : WholeLine(log, j) /\ log[j].rec.prompt = i})
\* prompt i was put on the queue and a worker took it
Dequeued(i) == i <= enq /\ \A k \in 1..Len(prompt_q) : prompt_q[k] # i
\* a worker died of an exception raised by open() or write()
AppendFailed == \E w \in Workers : wpc[w] = "dead"
InWriteSection(w) == wpc[w] \in {"open", "write"}

\* C1: when main() has returned from prompt_q.join() on N >= 1 prompts with
\* a pool of 1 <= W <= N threads, OUTFILE holds exactly N lines, each the
\* complete serialization of one record, and nothing else.
C1_ExactlyNRecords ==
  (mainpc = "done" /\ Len(prompts) >= 1)
    => /\ threads >= 1 /\ threads <= Len(prompts)
       /\ Cardinality(Newlines(log)) = Len(prompts)
       /\ \A j \in Newlines(log) : WholeLine(log, j)
       /\ Fragment(log) = <<>>

\* a run of 3 prompts on 2 threads has completed
C1_Witness == mainpc = "done" /\ Len(prompts) = 3 /\ threads = 2
OneRecordLine(f, j) == \A i \in LineStart(f, j)..j : f[i].rec = f[j].rec

\* C3 as stated: at most one worker is between acquiring and releasing
\* file_lock, and every line of OUTFILE is one whole record, with no piece
\* of another worker's record in it.
C3_WholeLines ==
  /\ Cardinality({w \in Workers : InWriteSection(w)}) <= 1
  /\ \A j \in Newlines(log) : OneRecordLine(log, j) /\ WholeLine(log, j)

\* C4: with at least one prompt, whatever the calls do, main() eventually
\* returns from join() unless an append raises.
C4_JoinReturns ==
  (mainpc = "truncate" /\ Len(prompts) >= 1) ~> (mainpc = "done" \/ AppendFailed)

\* a run in which a call timed out has completed
C4_Witness ==
  /\ mainpc = "done"
  /\ Len(prompts) >= 2
  /\ \E j \in Newlines(log) : log[j].rec.time_seconds = "TIMEOUT"

\* every prompt was put, taken from the queue and marked done
AllPromptsDone ==
  /\ enq = Len(prompts)
  /\ \A i \in 1..Len(prompts) : Dequeued(i) /\ \A w \in Workers : witem[w] # i

\* C5 as stated: join() lets main() go as soon as every prompt has been
\* marked done, whether or not the None entries were consumed.
C5_Original == (mainpc = "join" /\ AllPromptsDone) => unfinished_tasks = 0

\* C5: join() counts every entry of the queue, the None entries included:
\* when main() has returned from join() the queue is empty and every
\* started worker has marked its None done and left its loop.
C5_JoinCountsNone ==
  mainpc = "done" =>
    /\ prompt_q = <<>>
    /\ \A w \in 1..threads : wpc[w] = "exited"

\* main() is still in join() after the last prompt was marked done, because
\* a None is still in the queue
C5_Witness ==
  /\ mainpc = "join" /\ AllPromptsDone /\ threads = 2
  /\ \E k \in 1..Len(prompt_q) : prompt_q[k] = None

\* no thread can take a step
Quiescent ==
  \A w \in Workers : \/ wpc[w] \in {"unstarted", "exited", "dead"}
                     \/ wpc[w] = "get" /\ prompt_q = <<>>

\* C6 as stated: after a failed append main() is not left blocked in join()
\* for ever.
C6_NoHangAfterFailure ==
  AppendFailed => ~(mainpc = "join" /\ unfinished_tasks > 0 /\ Quiescent)

\* C7: one None per started thread is put, every None after the last prompt,
\* so no worker takes a None while a prompt is waiting in the queue.
C7_NoneAfterPrompts ==
  /\ sig <= threads
  /\ (mainpc \in {"join", "done"} => sig = threads)
  /\ (sig > 0 => enq = Len(prompts))
  /\ \A i, j \in 1..Len(prompt_q) : (i < j /\ prompt_q[i] = None) => prompt_q[j] = None
  /\ (\E w \in Workers : wpc[w] \in {"none_done", "exited"})
       => \A k \in 1..Len(prompt_q) : prompt_q[k] = None

\* a worker has taken a None while the other is still sending a prompt
C7_Witness ==
  /\ sig = 2 /\ Len(prompts) >= 2
  /\ \E w, v \in Workers : wpc[w] = "none_done" /\ wpc[v] = "post"

\* C8 as stated: with a missing prompt file or no prompt the run fails
\* before a worker starts and OUTFILE is not touched.
C8_ConfigError ==
  (~inputFile.exists \/ NumPrompts = 0)
    => (mainpc # "done" /\ truncations = 0 /\ threads = 0)

\* f is an initial part of g
IsPrefix(f, g) == Len(f) <= Len(g) /\ SubSeq(g, 1, Len(f)) = f

\* C9: OUTFILE is truncated once, before the first thread is started, and
\* from then on every write extends it.
C9_TruncateOnceThenAppend ==
  /\ [](/\ truncations <= 1
        /\ (mainpc \in {"start", "enqueue", "signal", "join", "done"} => truncations = 1)
        /\ (threads > 0 => truncations = 1))
  /\ [][truncations = 1 => (truncations' = 1 /\ IsPrefix(log, log'))]_vars

\* two records were appended after the truncation
C9_Witness == truncations = 1 /\ Cardinality(Newlines(log)) >= 2

\* C10: file_lock is held only by a worker that is opening or writing
\* OUTFILE, never by one whose call is in flight.
C10_NoLockAcrossCall ==
  /\ file_lock # 0 => InWriteSection(file_lock)
  /\ \A w \in Workers : wpc[w] = "post" => file_lock # w

\* one worker holds the lock while the call of the other is in flight
C10_Witness ==
  \E w, v \in Workers : file_lock = w /\ wpc[w] = "write" /\ wpc[v] = "post"
\* ------------------------------------------------ the outcome taxonomy
\* The variant of a call outcome: first whether the call returned, then the
\* status code, then whether the body has the expected structure.
Variant(o) ==
  IF o.kind = "timeout" THEN "Timeout"
  ELSE IF o.kind = "exception" THEN "TransportError"
  ELSE IF o.status # 200 THEN "HTTPError"
  ELSE IF o.body \in {"json_with_eval_count", "json_without_eval_count"} THEN "Success"
  ELSE "ParseError"

\* the variant that a branch of send_prompt stands for
VariantOfBranch(b) ==
  CASE b = "non200" -> "HTTPError"
    [] b = "parsed" -> "Success"
    [] b = "parse_failed" -> "ParseError"
    [] b = "timeout" -> "Timeout"
    [] b = "exception" -> "TransportError"

\* the worker has built its result dict
Classified(w) == wpc[w] \in {"lock", "open", "write", "task_done"}
\* positions of the pieces written by this run
Written == {k \in 1..Len(log) : log[k].rec.prompt >= 1}
\* positions at which a record of this run begins
Begun == {k \in Written : log[k].part = 1}
\* the variant of the call whose record the piece at position k belongs to
VariantAt(k) == Variant(behaviour[log[k].rec.prompt])
\* the fields of a record that tell how the call ended
StatusFields(r) == <<r.time_seconds, r.output_tokens, r.response>>

\* C11: every call outcome takes exactly one branch of send_prompt, the one
\* of its variant (call returned or not, then status code, then body), and
\* the worker holds exactly the record of that outcome for its prompt.
C11_ClassificationTotal ==
  \A w \in Workers : Classified(w) =>
    /\ Variant(behaviour[witem[w]])
         \in {"Success", "HTTPError", "ParseError", "Timeout", "TransportError"}
    /\ VariantOfBranch(Branch(behaviour[witem[w]])) = Variant(behaviour[witem[w]])
    /\ wresult[w] = Result(witem[w], behaviour[witem[w]])
    /\ wresult[w].prompt = witem[w]

\* a 500 response with an unparseable body has been classified
C11_Witness ==
  \E w \in Workers :
    /\ Classified(w)
    /\ behaviour[witem[w]] = [kind |-> "response", status |-> 500, body |-> "not_json"]

FieldForms ==
  {<<"elapsed", "eval_count", "data">>, <<"elapsed", "", "data">>,
   <<"ERROR", "ERROR", "resp.text">>, <<"TIMEOUT", "TIMEOUT", "None">>,
   <<"ERROR", "ERROR", "str(e)">>}

C13_Original ==
  \A k \in Written : VariantAt(k) \in {"HTTPError", "ParseError"} =>
    /\ log[k].rec.time_seconds = "elapsed"
    /\ log[k].rec.output_tokens = "ERROR"
    /\ log[k].rec.response = "resp.text"

\* C13: the record of a non-200 response or of a 200 response with an
\* unparseable body holds "ERROR" as time_seconds and as output_tokens, and
\* the body text.
C13_ErrorRecord ==
  \A k \in Written : VariantAt(k) \in {"HTTPError", "ParseError"} =>
    /\ log[k].rec.time_seconds = "ERROR"
    /\ log[k].rec.output_tokens = "ERROR"
    /\ log[k].rec.response = "resp.text"

\* the record of a 200 response whose body is JSON but no object is in the log
C13_Witness ==
  \E k \in Newlines(log) \cap Written :
    /\ WholeLine(log, k)
    /\ behaviour[log[k].rec.prompt]
         = [kind |-> "response", status |-> 200, body |-> "json_not_object"]

\* C14: a call that times out gives one record, with "TIMEOUT" as
\* time_seconds and an empty response, never an "ERROR" record.
C14_TimeoutRecord ==
  /\ \A k \in Written : VariantAt(k) = "Timeout" =>
       /\ log[k].rec.time_seconds = "TIMEOUT"
       /\ log[k].rec.response = "None"
  /\ \A i \in 1..Len(prompts) : Variant(behaviour[i]) = "Timeout" =>
       /\ RecordsOf(i) <= 1
       /\ (mainpc = "done" => RecordsOf(i) = 1)

\* a run with a call that timed out has completed
C14_Witness ==
  /\ mainpc = "done"
  /\ \E i \in 1..Len(prompts) : behaviour[i] = Timeout /\ RecordsOf(i) = 1

\* C15: an exception other than a timeout does not leave send_prompt: the
\* worker builds a record with "ERROR" and the text of the exception, goes
\* on to write it, and after task_done() is back at get().
C15_ExceptionRecorded ==
  /\ [](\A k \in Written : VariantAt(k) = "TransportError" =>
          /\ log[k].rec.time_seconds = "ERROR"
          /\ log[k].rec.response = "str(e)")
  /\ [][\A w \in Workers :
          /\ (wpc[w] = "post" /\ wpc'[w] # "post") => wpc'[w] = "lock"
          /\ (wpc[w] = "task_done" /\ wpc'[w] # "task_done") => wpc'[w] = "get"]_vars

\* the only worker is sending prompt 2 after it recorded the exception that
\* the call of prompt 1 raised
C15_Witness ==
  /\ threads = 1 /\ wpc[1] = "post" /\ witem[1] = 2
  /\ behaviour[1] = OtherException /\ RecordsOf(1) = 1

\* C16: the record of a 200 response with a body of the expected structure
\* holds the elapsed time, the eval_count of the body or "" when it has
\* none, and the parsed body.
C16_SuccessRecord ==
  \A k \in Written : VariantAt(k) = "Success" =>
    /\ log[k].rec.time_seconds = "elapsed"
    /\ log[k].rec.output_tokens
         = (IF behaviour[log[k].rec.prompt].body = "json_with_eval_count"
            THEN "eval_count" ELSE "")
    /\ log[k].rec.response = "data"

\* the record of a 200 response without eval_count is in the log
C16_Witness ==
  \E k \in Newlines(log) \cap Written :
    /\ WholeLine(log, k)
    /\ behaviour[log[k].rec.prompt]
         = [kind |-> "response", status |-> 200, body |-> "json_without_eval_count"]

\* the thread of worker w ends in this step
Ends(w) == wpc[w] \notin {"exited", "dead"} /\ wpc'[w] \in {"exited", "dead"}

C18_PoolSize ==
  /\ threads <= MAX_THREADS /\ threads <= Len(prompts)
  /\ mainpc \in {"enqueue", "signal", "join", "done"}
       => (threads = MAX_THREADS \/ threads = Len(prompts))
  /\ sig <= threads
  /\ mainpc \in {"join", "done"} => sig = threads

\* one prompt and MAX_THREADS = 2: one thread, one None
C18_Witness ==
  /\ mainpc = "join" /\ MAX_THREADS = 2 /\ Len(prompts) = 1
  /\ threads = 1 /\ sig = 1

\* number of times prompt i is in the queue
InQueue(i) == Cardinality({k \in 1..Len(prompt_q) : prompt_q[k] = i})
\* workers that hold prompt i
Holders(i) == {w \in Workers : witem[w] = i}

\* C19: a prompt is in the queue at most once, is held by at most one
\* worker, is never both in the queue and held, and once dequeued it never
\* is in the queue again.
C19_DequeuedOnce ==
  /\ [](\A i \in 1..MaxItems :
          /\ InQueue(i) <= 1
          /\ Cardinality(Holders(i)) <= 1
          /\ InQueue(i) + Cardinality(Holders(i)) <= 1)
  /\ [][\A i \in 1..MaxItems : Dequeued(i) => Dequeued(i)']_vars

\* two workers hold two different prompts while a third waits in the queue
C19_Witness ==
  /\ Cardinality(Holders(1)) = 1 /\ Cardinality(Holders(2)) = 1
  /\ Holders(1) # Holders(2)
  /\ InQueue(3) = 1

\* C20: after the truncation OUTFILE changes only by the holder of
\* file_lock appending the next piece of its record, so the records are in
\* the order in which the workers took the lock.
C20_LockOrder ==
  [][(truncations = 1 /\ log' # log)
       => /\ file_lock # 0
          /\ wpc[file_lock] = "write"
          /\ log' = Append(log, Piece(wresult[file_lock], wpart[file_lock]))]_vars

\* the record of prompt 2 is in the log before the record of prompt 1
C20_Witness ==
  \E j, k \in Newlines(log) :
    /\ j < k
    /\ WholeLine(log, j) /\ WholeLine(log, k)
    /\ log[j].rec.prompt = 2 /\ log[k].rec.prompt = 1
\* the forms of the three fields in the record of a variant
FormsOf(v) ==
  CASE v = "Success" -> {<<"elapsed", "eval_count", "data">>, <<"elapsed", "", "data">>}
    [] v = "HTTPError" -> {<<"ERROR", "ERROR", "resp.text">>}
    [] v = "ParseError" -> {<<"ERROR", "ERROR", "resp.text">>}
    [] v = "Timeout" -> {<<"TIMEOUT", "TIMEOUT", "None">>}
    [] v = "TransportError" -> {<<"ERROR", "ERROR", "str(e)">>}

\* C21: the record a worker writes carries the prompt it dequeued and the
\* fields of the variant of that prompt's own call, and when main() has
\* returned from join() the log holds one record per prompt, each with the
\* fields of its own variant.
C21_OwnOutcome ==
  /\ \A w \in Workers : Classified(w) => wresult[w].prompt = witem[w]
  /\ \A k \in Written : StatusFields(log[k].rec) \in FormsOf(VariantAt(k))
  /\ mainpc = "done" =>
       /\ Cardinality(Newlines(log)) = Len(prompts)
       /\ \A i \in 1..Len(prompts) : RecordsOf(i) = 1

\* a run with a 200 response and a refused connection, handled by two
\* threads, has completed
C21_Witness ==
  /\ mainpc = "done" /\ threads = 2 /\ Len(prompts) = 2
  /\ Variant(behaviour[1]) = "Success" /\ Variant(behaviour[2]) = "TransportError"
\* worker w is inside send_prompt (lines 17-82)
InSendPrompt(w) == wpc[w] \in {"post", "lock", "open", "write"}
\* the step is taken by worker w
StepOf(w) == wpc'[w] # wpc[w] \/ wpart'[w] # wpart[w]

\* C22 as stated: a step of send_prompt changes neither the log nor
\* file_lock nor the queue; the record reaches the log in a step of the
\* calling worker after send_prompt has returned.
C22_Original ==
  [][\A w \in Workers : (InSendPrompt(w) /\ StepOf(w)) =>
        /\ log' = log /\ file_lock' = file_lock
        /\ prompt_q' = prompt_q /\ unfinished_tasks' = unfinished_tasks]_vars

\* C22: a step of send_prompt changes neither the queue nor its count of
\* unfinished tasks nor another thread's locals nor main's state; the log
\* and file_lock are changed by send_prompt itself (apart from main's
\* truncation), never by the worker loop around it, and send_prompt hands
\* nothing back: after it the worker only marks the prompt done.
C22_SendPromptWritesItself ==
  [][/\ \A w \in Workers : (InSendPrompt(w) /\ StepOf(w)) =>
          /\ prompt_q' = prompt_q /\ unfinished_tasks' = unfinished_tasks
          /\ mainVars' = mainVars /\ truncations' = truncations
          /\ \A v \in Workers \ {w} :
               wpc'[v] = wpc[v] /\ witem'[v] = witem[v] /\ wresult'[v] = wresult[v]
     /\ \A w \in Workers : (~InSendPrompt(w) /\ StepOf(w)) =>
          log' = log /\ file_lock' = file_lock
     /\ (log' # log /\ mainpc' = mainpc) =>
          \E w \in Workers : InSendPrompt(w) /\ StepOf(w)
                             /\ log' = Append(log, Piece(wresult[w], wpart[w]))]_vars

\* send_prompt has returned to the worker loop with its record already in
\* the log and the prompt not yet marked done
C22_Witness ==
  \E w \in Workers :
    /\ wpc[w] = "task_done" /\ RecordsOf(witem[w]) = 1
    /\ file_lock = 0 /\ unfinished_tasks > 0
\* C23: when the second (or a later) of the runs on the same N prompts has returned from
\* join(), OUTFILE holds exactly N complete records, one per prompt, and
\* not the 2N of both runs.
C23_RerunReplaces ==
  (mainpc = "done" /\ truncations >= 2) =>
    /\ Cardinality(Newlines(log)) = Len(prompts)
    /\ Len(log) = NumParts * Len(prompts)
    /\ \A i \in 1..Len(prompts) : RecordsOf(i) = 1

\* the second run on 2 prompts has completed
C23_Witness == mainpc = "done" /\ truncations = 2 /\ Len(prompts) = 2 /\ Len(log) > 0
\* positions at which all the pieces of the record of prompt i were appended
\* one after the other
AppendedAt(i) ==
  {j \in 1..Len(log) : /\ j + NumParts - 1 <= Len(log)
                       /\ SubSeq(log, j, j + NumParts - 1) = Line(log[j].rec)
                       /\ log[j].rec.prompt = i}
\* records appended by this run
AppendedRecords == UNION {AppendedAt(i) : i \in 1..Len(prompts)}
\* task_done() calls made for prompts: all put() calls, less the unfinished
\* ones, less the calls made for a None
MarkedDone ==
  enq + sig - unfinished_tasks - Cardinality({w \in Workers : wpc[w] = "exited"})

\* C24: a worker calls task_done() for a prompt only after the record of
\* that prompt is appended: in every state the prompts marked done are at
\* most the records in the log, every prompt that is dequeued and no longer
\* held has its record, and join() does not return while a record is
\* missing.
C24_RecordBeforeDone ==
  /\ MarkedDone <= Cardinality(AppendedRecords)
  /\ \A w \in Workers : wpc[w] = "task_done" => AppendedAt(witem[w]) # {}
  /\ \A i \in 1..Len(prompts) :
       (Dequeued(i) /\ Holders(i) = {}) => Cardinality(AppendedAt(i)) = 1
  /\ mainpc = "done" => \A i \in 1..Len(prompts) : AppendedAt(i) # {}

\* one prompt is marked done and its record is in the log, while another
\* worker is still writing the record of a second prompt
C24_Witness ==
  /\ MarkedDone = 1 /\ Cardinality(AppendedRecords) = 1
  /\ \E w \in Workers : wpc[w] = "write" /\ wpart[w] = 2
\* workers that have taken a None off the queue
TookNone == {w \in Workers : wpc[w] \in {"none_done", "exited"}}

\* C25: every None that left the queue was taken by a different worker, a
\* worker that took one holds no prompt and takes nothing more, and unless
\* an append to OUTFILE raises, the run ends with main returned (or crashed
\* on a missing prompt file), every started thread exited and the queue
\* empty.
C25_WorkersExit ==
  /\ [](/\ Cardinality(TookNone) + InQueue(None) = sig
        /\ \A w \in TookNone : witem[w] = None)
  /\ [][\A w \in Workers : wpc[w] = "exited" =>
          (wpc'[w] = "exited" /\ witem'[w] = None /\ StepOf(w) = FALSE)]_vars
  /\ <>[](AppendFailed \/ (/\ mainpc \in {"done", "crashed"}
                           /\ \A w \in 1..threads : wpc[w] = "exited"
                           /\ prompt_q = <<>>))

\* two threads have handled three prompts, both have taken their None and
\* left the loop, and nothing is left in the queue
C25_Witness ==
  /\ threads = 2 /\ Len(prompts) = 3 /\ sig = 2
  /\ \A w \in 1..threads : wpc[w] = "exited"
  /\ prompt_q = <<>> /\ ~AppendFailed
\* prompts taken off the queue whose record is not in the log
InFlight == {i \in 1..Len(prompts) : Dequeued(i) /\ AppendedAt(i) = {}}

\* C26: the prompts that are dequeued and not yet recorded are never more
\* than min(MAX_THREADS, N), and each of them is held by a thread.
C26_InFlightBound ==
  /\ Cardinality(InFlight) <= MAX_THREADS
  /\ Cardinality(InFlight) <= Len(prompts)
  /\ \A i \in InFlight : Cardinality(Holders(i)) = 1

\* with MAX_THREADS = 2 and 3 prompts, two calls are in flight while the
\* third prompt waits in the queue
C26_Witness ==
  /\ MAX_THREADS = 2 /\ Len(prompts) = 3
  /\ Cardinality(InFlight) = 2 /\ InQueue(3) = 1
  /\ \A w \in 1..threads : wpc[w] = "post"
\* records of prompts before the k-th that are in the log before position j
EarlierBefore(k, j) == {p \in AppendedRecords : p < j /\ log[p].rec.prompt < k}

\* C27: prompts leave the queue in the order of the prompt file, so with W
\* = min(MAX_THREADS, N) the record of the k-th prompt has at least k - W
\* records of earlier prompts before it in the log, and with one thread the
\* records are in the order of the prompt file.
C27_BoundedReordering ==
  LET W == IF MAX_THREADS <= Len(prompts) THEN MAX_THREADS ELSE Len(prompts)
  IN /\ \A k \in 1..Len(prompts) : \A i \in 1..k :
          Dequeued(k) => Dequeued(i)
     /\ \A k \in 1..Len(prompts) : \A j \in AppendedAt(k) :
          Cardinality(EarlierBefore(k, j)) >= k - W
     /\ W = 1 => \A p, q \in AppendedRecords :
                   p < q => log[p].rec.prompt < log[q].rec.prompt

\* with two threads the record of the third prompt is in the log with only
\* one record of an earlier prompt before it
C27_Witness ==
  /\ MAX_THREADS = 2 /\ Len(prompts) = 3
  /\ \E j \in AppendedAt(3) : Cardinality(EarlierBefore(3, j)) = 1
\* C28: file_lock is given up by the thread that holds it, also when
\* open() or write() raises: a thread that has ended, or is anywhere
\* outside lines 80-82, does not hold it, the lock only goes from its holder
\* to free in a step of the holder, and a thread waiting for the lock after
\* another thread has died finds it free or held by a thread that is
\* writing.
C28_LockReleased ==
  /\ [](\A w \in Workers : file_lock = w => wpc[w] \in {"open", "write"})
  /\ [][/\ (file_lock # 0 /\ file_lock' # file_lock) =>
             (file_lock' = 0 /\ StepOf(file_lock))
        /\ \A w \in Workers : (wpc[w] # "dead" /\ wpc'[w] = "dead") =>
             (file_lock = w /\ file_lock' = 0)]_vars
  /\ []((AppendFailed /\ \E v \in Workers : wpc[v] = "lock") =>
          (file_lock = 0 \/ \E h \in Workers : file_lock = h /\ InWriteSection(h)))

\* a thread has died in its append and another thread now holds file_lock
\* and is writing its own record
C28_Witness ==
  \E d, v \in Workers :
    /\ wpc[d] = "dead" /\ v # d
    /\ file_lock = v /\ wpc[v] = "write" /\ wpart[v] = NumParts
\* thread w cannot take a step: it waits in get() on an empty queue, waits
\* for file_lock, has ended or was never started
Blocked(w) ==
  \/ wpc[w] = "get" /\ prompt_q = <<>>
  \/ wpc[w] = "lock" /\ file_lock # 0
  \/ wpc[w] \in {"unstarted", "exited", "dead"}
\* main waits in join()
MainBlocked == mainpc = "join" /\ unfinished_tasks # 0

\* C29: all threads are started before main puts the first prompt, so a
\* thread can wait in get() on an empty queue, but unless an append to
\* OUTFILE raises there is no state in which main waits in join() and every
\* thread is blocked or gone, and the only states without a next step are
\* those in which main has returned or crashed on a missing prompt file.
C29_NoDeadlock ==
  /\ (enq > 0 \/ sig > 0) =>
       /\ mainpc \in {"enqueue", "signal", "join", "done"}
       /\ threads >= 1
       /\ \A w \in 1..threads : wpc[w] # "unstarted"
  /\ (MainBlocked /\ \A w \in Workers : Blocked(w)) => AppendFailed
  /\ (~ENABLED Next) => (mainpc \in {"done", "crashed"} \/ AppendFailed)

\* both threads wait in get() on the empty queue before main has put the
\* first prompt
C29_Witness ==
  /\ mainpc = "enqueue" /\ enq = 0 /\ threads = 2 /\ prompt_q = <<>>
  /\ \A w \in 1..threads : wpc[w] = "get" /\ Blocked(w)
====
